---------------------------- MODULE Spec2Model ----------------------------
(***************************************************************************)
(* Obfuscratchor (src/obfuscratchor.py, version 2.5): the rename passes    *)
(* over a Scratch project document and the obfuscate() driver.             *)
(*                                                                         *)
(* Representation                                                          *)
(*   - a Python str that the program builds or inspects character by       *)
(*     character (display names, proccodes, literal texts) is a sequence   *)
(*     of code points; a str that is only compared whole (dict keys,       *)
(*     opcodes, option names) is a TLA+ string;                            *)
(*   - a Python dict is the sequence of its <<key, value>> items in        *)
(*     insertion order;                                                    *)
(*   - an option value is a tagged record (PyInt, PyStr, PyNone, ...);      *)
(*     dict objects live in `heap`, so that the shallow options.copy() of  *)
(*     obfuscate shares the per-category records with the caller;          *)
(*   - secrets / random are an oracle: every generator call reads one of   *)
(*     a bounded family of random streams (Tapes).                         *)
(***************************************************************************)
EXTENDS Integers, Sequences, FiniteSets, TLC

VARIABLES
    infile,          \* project['targets'] as stored in the input archive
    targets,         \* the in-memory Target list being mutated
    caller_options,  \* the value the caller passed as `options`
    options,         \* obfuscate's local `options` (after .copy(): a new dict)
    heap,            \* dict objects: heap[id] is the item list of dict id
    pc,              \* position in obfuscate
    err,             \* kind of the exception that left obfuscate, or "none"
    warnings,        \* keys reported through warn(..., UnknownOption), in order
    outfile,         \* <<>> until save_project wrote; then <<targets written>>
    ran,             \* names of the passes obfuscate has called, in order
    pre,             \* the Target list as it was when the last pass was called
    given            \* the option value the last pass was called with

vars == <<infile, targets, caller_options, options, heap, pc, err, warnings,
          outfile, ran, pre, given>>

-----------------------------------------------------------------------------
(* Bounds of the model                                                     *)

MaxTape == 1          \* random streams 0..MaxTape are explored per call
MaxNameLen == 2       \* explicit *_name_length values 0..MaxNameLen
MaxTextLen == 2       \* literal texts of length 0..MaxTextLen are enumerated

(* Program constants                                                       *)

DefaultNameLength == 10
NumberPrimitive == 4

Tapes == 0..MaxTape

-----------------------------------------------------------------------------
(* Python values                                                           *)

PyInt(n) == [t |-> "int", i |-> n]
PyStr(s) == [t |-> "str", s |-> s]
PyBool(b) == [t |-> "bool", b |-> b]
DictRef(id) == [t |-> "dict", id |-> id]
PyNone == [t |-> "none"]
Ellipsis == [t |-> "ellipsis"]

IsInstanceInt(v) == v.t \in {"int", "bool"}     \* bool is a subclass of int
IsInstanceBool(v) == v.t = "bool"
IsInstanceDict(v) == v.t = "dict"

IntOf(v) == IF v.t = "bool" THEN (IF v.b THEN 1 ELSE 0) ELSE v.i

\* A test that would take every flag for true.
TruthyAlways(v) == TRUE

Truthy(v) ==
    CASE v.t = "bool" -> v.b
      [] v.t = "int" -> v.i # 0
      [] v.t = "str" -> v.s # ""
      [] v.t = "none" -> FALSE
      [] OTHER -> TRUE

\* The option strings the model uses as range bounds, in Python's str order.
SortedStrs == <<"65", "66">>
StrRank(s) == CHOOSE i \in 1..Len(SortedStrs) : SortedStrs[i] = s

\* a > b is defined between numbers and between strs; anything else raises
\* TypeError.
Comparable(a, b) ==
    \/ IsInstanceInt(a) /\ IsInstanceInt(b)
    \/ a.t = "str" /\ b.t = "str"

Greater(a, b) ==
    IF a.t = "str" THEN StrRank(a.s) > StrRank(b.s) ELSE IntOf(a) > IntOf(b)

-----------------------------------------------------------------------------
(* dict operations on item lists                                           *)

HasKey(d, k) == \E i \in 1..Len(d) : d[i][1] = k
Get(d, k) == d[CHOOSE i \in 1..Len(d) : d[i][1] = k][2]
Remove(d, k) == SelectSeq(d, LAMBDA item : item[1] # k)
Keys(d) == [i \in 1..Len(d) |-> d[i][1]]

\* d[k] = v: an existing key keeps its place, a new key goes last
Assign(d, k, v) ==
    IF HasKey(d, k)
    THEN [i \in 1..Len(d) |-> IF d[i][1] = k THEN <<k, v>> ELSE d[i]]
    ELSE Append(d, <<k, v>>)

\* The dict after d[items[1][1]] = items[1][2]; ...; d[items[n][1]] = items[n][2]
\* on an empty dict.
RECURSIVE AssignAll(_, _)
AssignAll(items, n) ==
    IF n = 0 THEN <<>> ELSE Assign(AssignAll(items, n - 1), items[n][1], items[n][2])

\* d.pop(k, default): the value and the dict afterwards
pop(d, k, default) ==
    [val |-> IF HasKey(d, k) THEN Get(d, k) ELSE default, dict |-> Remove(d, k)]

-----------------------------------------------------------------------------
(* Name generators                                                         *)

\* Byte i of random stream `tape`.
TapeByte(tape, i) == (tape * 171 + i * 37) % 256

HexDigit(d) == IF d < 10 THEN 48 + d ELSE 87 + d
HexByte(b) == <<HexDigit(b \div 16), HexDigit(b % 16)>>

\* secrets.token_hex(nbytes): nbytes random bytes, two hex digits each.
token_hex(nbytes, tape) ==
    [i \in 1..(2 * nbytes) |->
        HexByte(TapeByte(tape, (i + 1) \div 2))[IF i % 2 = 1 THEN 1 ELSE 2]]

\* ''.join(chr(random.choice(list(range(start, end + 1)))) for _ in range(n))
unicode_chars(n, range_start, range_end, tape) ==
    [i \in 1..n |-> range_start + (TapeByte(tape, i) % (range_end + 1 - range_start))]

\* What parse_rename_options hands back: one of the two lambdas, or the raw
\* option value when the strategy matched neither branch.
HexGen(n) == [kind |-> "random_hex", len |-> n]
RangeGen(n, a, b) == [kind |-> "random_unicode_char_range", len |-> n, range_start |-> a, range_end |-> b]
RawGen(v) == [kind |-> "raw", val |-> v]
NoGen == [kind |-> "unbound"]

Callable(gen) == gen.kind \in {"random_hex", "random_unicode_char_range"}

\* One call rename_vars_to() of a callable generator.
Generate(gen, tape) ==
    IF gen.kind = "random_hex" THEN token_hex(gen.len, tape)
    ELSE unicode_chars(gen.len, gen.range_start, gen.range_end, tape)

-----------------------------------------------------------------------------
(* parse_rename_options                                                    *)

\* name_name[:-1]
DropLast(name_name) ==
    CASE name_name = "variables" -> "variable"
      [] name_name = "lists" -> "list"
      [] name_name = "sprites" -> "sprite"
      [] name_name = "costumes" -> "costume"
      [] name_name = "sounds" -> "sound"
      [] name_name = "backdrops" -> "backdrop"
      [] name_name = "my_blocks" -> "my_block"

LengthKey(name_name) == DropLast(name_name) \o "_name_length"
StrategyKey(name_name) == "rename_" \o name_name \o "_to"

Parsed(opts, e, gen) == [options |-> opts, err |-> e, gen |-> gen]

parse_rename_options(opts, name_name) ==
    LET p1 == pop(opts, StrategyKey(name_name), Ellipsis)
        p2 == pop(p1.dict, LengthKey(name_name), PyInt(DefaultNameLength))
        rename_vars_to == p1.val
        var_name_len == p2.val
    IN  IF ~IsInstanceInt(var_name_len) THEN Parsed(p2.dict, "OptionError", NoGen)
        ELSE IF rename_vars_to = Ellipsis THEN Parsed(p2.dict, "OptionError", NoGen)
        ELSE IF rename_vars_to = PyStr("random_hex")
            THEN Parsed(p2.dict, "none", HexGen(IntOf(var_name_len)))
        ELSE IF rename_vars_to = PyStr("random_unicode_char_range")
            THEN LET p3 == pop(p2.dict, "range_start", PyNone)
                     p4 == pop(p3.dict, "range_end", PyNone)
                     range_start == p3.val
                     range_end == p4.val
                 IN  IF ~Comparable(range_start, range_end)
                         THEN Parsed(p4.dict, "TypeError", NoGen)
                     ELSE IF Greater(range_start, range_end)
                         THEN Parsed(p4.dict, "OptionError", NoGen)
                     ELSE IF ~(range_start.t = "int" /\ range_end.t = "int")
                         THEN Parsed(p4.dict, "OptionError", NoGen)
                     ELSE Parsed(p4.dict, "none",
                                 RangeGen(IntOf(var_name_len), range_start.i, range_end.i))
        ELSE Parsed(p2.dict, "none", RawGen(rename_vars_to))

-----------------------------------------------------------------------------
(* Helpers over the Target list                                            *)

\* What a pass leaves behind: the Target list, its options record after the
\* pops, and the kind of the exception it raised ("none": it returned).
Result(ts, opts, e) == [targets |-> ts, options |-> opts, err |-> e]

\* d[k] = v on an item list that has key k
SetItem(d, k, v) == [i \in 1..Len(d) |-> IF d[i][1] = k THEN <<k, v>> ELSE d[i]]

\* Number of entries of collection coll owned by the targets of `scope`
\* that come before target t.
RECURSIVE CountBefore(_, _, _, _)
CountBefore(ts, coll, scope, t) ==
    IF t <= 1 THEN 0
    ELSE CountBefore(ts, coll, scope, t - 1)
         + (IF (t - 1) \in scope THEN Len(ts[t - 1][coll]) ELSE 0)

CountIn(ts, coll, scope) == CountBefore(ts, coll, scope, Len(ts) + 1)

\* entry[0] = name on a variable or list record [name, value]
SetFirst(entry, name) == [entry EXCEPT !.val = [@ EXCEPT ![1] = name]]
\* entry['name'] = name on a costume, sound or backdrop record
SetName(entry, name) == [entry EXCEPT !.name = name]

-----------------------------------------------------------------------------
(* rename_variables / rename_lists                                         *)

\* The two functions have the same body up to the category name.
rename_keyed(ts, opts, rnd, name_name) ==
    LET r == parse_rename_options(opts, name_name)
    IN  IF r.err # "none" THEN Result(ts, r.options, r.err)
        ELSE
        LET pub == pop(r.options, "rename_public_" \o name_name, PyBool(TRUE))
            nStage == IF Truthy(pub.val) THEN Len(ts[1][name_name]) ELSE 0
        IN  IF nStage > 0 /\ ~Callable(r.gen) THEN Result(ts, pub.dict, "TypeError")
            ELSE
            LET priv == pop(pub.dict, "rename_private_" \o name_name, PyBool(TRUE))
                sprites == 2..Len(ts)
                nSprites == IF Truthy(priv.val) THEN CountIn(ts, name_name, sprites) ELSE 0
                Renamed(t) ==
                    LET base == nStage + CountBefore(ts, name_name, sprites, t)
                    IN  [ts[t] EXCEPT ![name_name] =
                            [j \in 1..Len(ts[t][name_name]) |->
                                SetFirst(ts[t][name_name][j], Generate(r.gen, rnd[base + j]))]]
                stage_done == [t \in 1..Len(ts) |->
                                 IF t = 1 /\ nStage > 0 THEN Renamed(1) ELSE ts[t]]
            IN  IF nSprites > 0 /\ ~Callable(r.gen)
                    THEN Result(stage_done, priv.dict, "TypeError")
                ELSE Result([t \in 1..Len(ts) |->
                                IF t > 1 /\ nSprites > 0 THEN Renamed(t) ELSE stage_done[t]],
                            priv.dict, "none")

rename_variables(ts, opts, rnd) == rename_keyed(ts, opts, rnd, "variables")

rename_lists(ts, opts, rnd) == rename_keyed(ts, opts, rnd, "lists")

-----------------------------------------------------------------------------
(* rename_sprites                                                          *)

\* Mutant of menus: the sensing_of_object_menu entry is forgotten.
menus_without_sensing_of ==
    << <<"motion_goto_menu", "TO">>,
       <<"motion_glideto_menu", "TO">>,
       <<"motion_pointtowards_menu", "TOWARDS">>,
       <<"control_create_clone_of_menu", "CLONE_OPTION">>,
       <<"sensing_touchingobjectmenu", "TOUCHINGOBJECTMENU">> >>

menus ==
    << <<"motion_goto_menu", "TO">>,
       <<"motion_glideto_menu", "TO">>,
       <<"motion_pointtowards_menu", "TOWARDS">>,
       <<"control_create_clone_of_menu", "CLONE_OPTION">>,
       <<"sensing_touchingobjectmenu", "TOUCHINGOBJECTMENU">>,
       <<"sensing_of_object_menu", "OBJECT">> >>

\* The block after the inner loop over menus.items().
RewriteMenu(blk, names) ==
    IF HasKey(menus, blk.opcode)
       /\ HasKey(names, Get(blk.fields, Get(menus, blk.opcode))[1])
    THEN LET field_name == Get(menus, blk.opcode)
             field == Get(blk.fields, field_name)
         IN  [blk EXCEPT !.fields =
                 SetItem(blk.fields, field_name, [field EXCEPT ![1] = Get(names, field[1])])]
    ELSE blk

rename_sprites(ts, opts, rnd) ==
    LET r == parse_rename_options(opts, "sprites")
    IN  IF r.err # "none" THEN Result(ts, r.options, r.err)
        ELSE IF Len(ts) > 1 /\ ~Callable(r.gen) THEN Result(ts, r.options, "TypeError")
        ELSE
        LET new_name(t) == Generate(r.gen, rnd[t - 1])
            \* names[sprite['name']] = new_name, sprite by sprite
            names == AssignAll([i \in 1..(Len(ts) - 1) |-> <<ts[i + 1].name, new_name(i + 1)>>],
                               Len(ts) - 1)
        IN  Result([t \in 1..Len(ts) |->
                       [ts[t] EXCEPT
                           !.name = IF t > 1 THEN new_name(t) ELSE @,
                           !.blocks = [b \in 1..Len(@) |-> RewriteMenu(@[b], names)]]],
                   r.options, "none")

-----------------------------------------------------------------------------
(* rename_costumes / rename_sounds / rename_backdrops                      *)

\* for t in scope: for entry in targets[t][coll]: entry['name'] = gen()
rename_named(ts, opts, rnd, name_name, coll, scope) ==
    LET r == parse_rename_options(opts, name_name)
    IN  IF r.err # "none" THEN Result(ts, r.options, r.err)
        ELSE IF CountIn(ts, coll, scope) > 0 /\ ~Callable(r.gen)
            THEN Result(ts, r.options, "TypeError")
        ELSE Result([t \in 1..Len(ts) |->
                        IF t \in scope
                        THEN [ts[t] EXCEPT ![coll] =
                                [j \in 1..Len(ts[t][coll]) |->
                                    SetName(ts[t][coll][j],
                                            Generate(r.gen, rnd[CountBefore(ts, coll, scope, t) + j]))]]
                        ELSE ts[t]],
                    r.options, "none")

costumes_scope(ts) == 2..Len(ts)
rename_costumes(ts, opts, rnd) ==
    rename_named(ts, opts, rnd, "costumes", "costumes", costumes_scope(ts))

\* Mutant of sounds_scope: the stage's sounds are left out.
sounds_sprites_only(ts) == 2..Len(ts)

sounds_scope(ts) == 1..Len(ts)
rename_sounds(ts, opts, rnd) ==
    rename_named(ts, opts, rnd, "sounds", "sounds", sounds_scope(ts))

backdrops_scope(ts) == {1}
rename_backdrops(ts, opts, rnd) ==
    rename_named(ts, opts, rnd, "backdrops", "costumes", backdrops_scope(ts))

-----------------------------------------------------------------------------
(* rename_my_blocks                                                        *)

\* re.findall(r'%[nsb]', s): the non-overlapping matches, left to right.
RECURSIVE findall_from(_, _)
findall_from(s, i) ==
    IF i > Len(s) THEN <<>>
    ELSE IF s[i] = 37 /\ i < Len(s) /\ s[i + 1] \in {110, 115, 98}
        THEN <<SubSeq(s, i, i + 1)>> \o findall_from(s, i + 2)
    ELSE findall_from(s, i + 1)

findall(s) == findall_from(s, 1)

\* ' '.join(tokens)
RECURSIVE join(_)
join(tokens) ==
    IF tokens = <<>> THEN <<>>
    ELSE IF Len(tokens) = 1 THEN tokens[1]
    ELSE tokens[1] \o <<32>> \o join(Tail(tokens))

\* '%s %s' % (name, ' '.join(re.findall(r'%[nsb]', original_proccode)))
new_proccode(name, original_proccode) == name \o <<32>> \o join(findall(original_proccode))

\* The <<target, block>> positions in the order the two loops visit them.
RECURSIVE Visit(_, _, _)
Visit(ts, t, b) ==
    IF t > Len(ts) THEN <<>>
    ELSE IF b > Len(ts[t].blocks) THEN Visit(ts, t + 1, 1)
    ELSE <<(<<t, b>>)>> \o Visit(ts, t, b + 1)

proccode(blk) == Get(blk.mutation, "proccode")

\* Mutant of lookup_error: a call-site without a definition is skipped.
lookup_skipped(missing) == "none"

\* names[original_proccode] with no such key raises KeyError
lookup_error(missing) == IF missing THEN "KeyError" ELSE "none"

rename_my_blocks(ts, opts, rnd) ==
    LET r == parse_rename_options(opts, "my_blocks")
        order == Visit(ts, 1, 1)
        At(p) == ts[p[1]].blocks[p[2]]
        protos == SelectSeq(order, LAMBDA p : At(p).opcode = "procedures_prototype")
        calls == SelectSeq(order, LAMBDA p : At(p).opcode = "procedures_call")
    IN  IF r.err # "none" THEN Result(ts, r.options, r.err)
        ELSE IF Len(protos) > 0 /\ ~Callable(r.gen) THEN Result(ts, r.options, "TypeError")
        ELSE
        LET renamed(k) == new_proccode(Generate(r.gen, rnd[k]), proccode(At(protos[k])))
            \* names[original_proccode] = new_proccode, prototype by prototype
            names == AssignAll([k \in 1..Len(protos) |->
                                   <<proccode(At(protos[k])), renamed(k)>>],
                               Len(protos))
            \* the call-sites the second loop reaches before names[...] raises
            dangling == {c \in 1..Len(calls) : ~HasKey(names, proccode(At(calls[c])))}
            reached == {c \in 1..Len(calls) : \A d \in dangling : c < d}
            Rewritten(t, b) ==
                LET blk == ts[t].blocks[b]
                IN  IF \E k \in 1..Len(protos) : protos[k] = <<t, b>>
                        THEN [blk EXCEPT !.mutation =
                                SetItem(@, "proccode",
                                        renamed(CHOOSE k \in 1..Len(protos) : protos[k] = <<t, b>>))]
                    ELSE IF \E c \in reached : calls[c] = <<t, b>>
                        THEN [blk EXCEPT !.mutation =
                                SetItem(@, "proccode", Get(names, proccode(blk)))]
                    ELSE blk
        IN  Result([t \in 1..Len(ts) |->
                       [ts[t] EXCEPT !.blocks = [b \in 1..Len(@) |-> Rewritten(t, b)]]],
                   r.options,
                   lookup_error(dangling # {}))

-----------------------------------------------------------------------------
(* convert_integers_to_hexadecimal                                         *)

IsDigit(c) == c \in 48..57

AllDigits(s) == Len(s) > 0 /\ \A i \in 1..Len(s) : IsDigit(s[i])

\* re.match(r'^\d+$', s): `$` matches at the end of the string and also just
\* before a newline that ends the string.
match_decimal(s) ==
    \/ AllDigits(s)
    \/ Len(s) > 1 /\ s[Len(s)] = 10 /\ AllDigits(SubSeq(s, 1, Len(s) - 1))

\* int(s) on a text match_decimal accepts (int() strips the newline)
RECURSIVE int_digits(_)
int_digits(s) ==
    IF s = <<>> THEN 0
    ELSE 10 * int_digits(SubSeq(s, 1, Len(s) - 1)) + (s[Len(s)] - 48)

int(s) == int_digits(SelectSeq(s, IsDigit))

\* hex(n) for n >= 0: "0x" and the base-16 digits, no leading zero
RECURSIVE hex_digits(_)
hex_digits(n) ==
    IF n < 16 THEN <<HexDigit(n)>> ELSE hex_digits(n \div 16) \o <<HexDigit(n % 16)>>

hex(n) == <<48, 120>> \o hex_digits(n)

\* v[1] and v[1][0] == 4 and re.match(r'^\d+$', v[1][1])
IsDecimalLiteral(v) ==
    /\ v[2].t = "prim"
    /\ v[2].kind = NumberPrimitive
    /\ match_decimal(v[2].text)

ConvertInput(v) ==
    IF IsDecimalLiteral(v) THEN [v EXCEPT ![2].text = hex(int(v[2].text))] ELSE v

convert_integers_to_hexadecimal(ts, convert) ==
    IF convert
    THEN [t \in 1..Len(ts) |->
            [ts[t] EXCEPT !.blocks =
                [b \in 1..Len(@) |->
                    [@[b] EXCEPT !.inputs =
                        [k \in 1..Len(@) |-> <<@[k][1], ConvertInput(@[k][2])>>]]]]]
    ELSE ts

-----------------------------------------------------------------------------
(* obfuscate                                                               *)

option_names ==
    << <<"rename_variables", "dict">>,
       <<"rename_lists", "dict">>,
       <<"rename_sprites", "dict">>,
       <<"rename_costumes", "dict">>,
       <<"rename_sounds", "dict">>,
       <<"rename_backdrops", "dict">>,
       <<"rename_my_blocks", "dict">>,
       <<"convert_integers_to_hexadecimal", "bool">> >>

\* Where the loop over option_names.items() goes after option_name.
NextPc(option_name) ==
    LET i == CHOOSE k \in 1..Len(option_names) : option_names[k][1] = option_name
    IN  IF i = Len(option_names) THEN "warn" ELSE option_names[i + 1][1]

\* isinstance(option, option_type)
IsInstance(v, option_type) ==
    IF option_type = "dict" THEN IsInstanceDict(v) ELSE IsInstanceBool(v)

\* An upper bound on the generator calls a pass makes on ts: the length of
\* the oracle's answer list.
OracleLen(option_name, ts) ==
    CASE option_name = "rename_variables" -> CountIn(ts, "variables", 1..Len(ts))
      [] option_name = "rename_lists" -> CountIn(ts, "lists", 1..Len(ts))
      [] option_name = "rename_sprites" -> Len(ts) - 1
      [] option_name = "rename_costumes" -> CountIn(ts, "costumes", 2..Len(ts))
      [] option_name = "rename_sounds" -> CountIn(ts, "sounds", 1..Len(ts))
      [] option_name = "rename_backdrops" -> Len(ts[1].costumes)
      [] option_name = "rename_my_blocks" ->
            Len(SelectSeq(Visit(ts, 1, 1),
                          LAMBDA p : ts[p[1]].blocks[p[2]].opcode = "procedures_prototype"))

\* lines 387-392: the type check of `options` and options.copy()
Begin ==
    /\ pc = "start"
    /\ IF ~IsInstanceDict(options)
       THEN /\ err' = "TypeError"
            /\ pc' = "raised"
            /\ UNCHANGED <<options, heap>>
       ELSE /\ heap' = Append(heap, heap[options.id])
            /\ options' = DictRef(Len(heap) + 1)
            /\ pc' = option_names[1][1]
            /\ err' = err
    /\ UNCHANGED <<infile, targets, caller_options, warnings, outfile, ran, pre, given>>

\* lines 403-405, one iteration of the loop for a rename category:
\*   if option_name in options and isinstance((option := options.pop(option_name)), dict):
\*       targets = globals()[option_name](targets, option)

\* option_name in options and isinstance(options[option_name], option_type)
Requested(option_name, option_type) ==
    /\ HasKey(heap[options.id], option_name)
    /\ IsInstance(Get(heap[options.id], option_name), option_type)

\* The record handed to the pass, and what the random source may answer.
OptionOf(option_name) == heap[Get(heap[options.id], option_name).id]
Oracle(option_name) == [1..OracleLen(option_name, targets) -> Tapes]

\* A loop that would go on to the next category after a pass raised.
CalledAndContinued(option_name, res) ==
    /\ targets' = res.targets
    /\ heap' = [heap EXCEPT ![options.id] = Remove(@, option_name),
                            ![Get(heap[options.id], option_name).id] = res.options]
    /\ err' = res.err
    /\ pc' = NextPc(option_name)
    /\ ran' = Append(ran, option_name)
    /\ pre' = targets
    /\ given' = OptionOf(option_name)
    /\ UNCHANGED <<infile, caller_options, options, warnings, outfile>>

\* The pass was called and left res.
Called(option_name, res) ==
    /\ targets' = res.targets
    /\ heap' = [heap EXCEPT ![options.id] = Remove(@, option_name),
                            ![Get(heap[options.id], option_name).id] = res.options]
    /\ err' = res.err
    /\ pc' = IF res.err = "none" THEN NextPc(option_name) ELSE "raised"
    /\ ran' = Append(ran, option_name)
    /\ pre' = targets
    /\ given' = OptionOf(option_name)
    /\ UNCHANGED <<infile, caller_options, options, warnings, outfile>>

\* The key is absent, or popped and dropped because of its type.
Skipped(option_name) ==
    /\ heap' = [heap EXCEPT ![options.id] = Remove(@, option_name)]
    /\ pc' = NextPc(option_name)
    /\ UNCHANGED <<infile, targets, caller_options, options, err, warnings, outfile, ran,
                   pre, given>>

DoRenameVariables ==
    /\ pc = "rename_variables"
    /\ IF Requested(pc, "dict")
       THEN \E rnd \in Oracle(pc) : Called(pc, rename_variables(targets, OptionOf(pc), rnd))
       ELSE Skipped(pc)

DoRenameLists ==
    /\ pc = "rename_lists"
    /\ IF Requested(pc, "dict")
       THEN \E rnd \in Oracle(pc) : Called(pc, rename_lists(targets, OptionOf(pc), rnd))
       ELSE Skipped(pc)

DoRenameSprites ==
    /\ pc = "rename_sprites"
    /\ IF Requested(pc, "dict")
       THEN \E rnd \in Oracle(pc) : Called(pc, rename_sprites(targets, OptionOf(pc), rnd))
       ELSE Skipped(pc)

DoRenameCostumes ==
    /\ pc = "rename_costumes"
    /\ IF Requested(pc, "dict")
       THEN \E rnd \in Oracle(pc) : Called(pc, rename_costumes(targets, OptionOf(pc), rnd))
       ELSE Skipped(pc)

DoRenameSounds ==
    /\ pc = "rename_sounds"
    /\ IF Requested(pc, "dict")
       THEN \E rnd \in Oracle(pc) : Called(pc, rename_sounds(targets, OptionOf(pc), rnd))
       ELSE Skipped(pc)

DoRenameBackdrops ==
    /\ pc = "rename_backdrops"
    /\ IF Requested(pc, "dict")
       THEN \E rnd \in Oracle(pc) : Called(pc, rename_backdrops(targets, OptionOf(pc), rnd))
       ELSE Skipped(pc)

DoRenameMyBlocks ==
    /\ pc = "rename_my_blocks"
    /\ IF Requested(pc, "dict")
       THEN \E rnd \in Oracle(pc) : Called(pc, rename_my_blocks(targets, OptionOf(pc), rnd))
       ELSE Skipped(pc)

\* lines 403-405, the iteration for convert_integers_to_hexadecimal (a bool)
DoConvertIntegers ==
    /\ pc = "convert_integers_to_hexadecimal"
    /\ IF Requested(pc, "bool")
       THEN /\ targets' = convert_integers_to_hexadecimal(targets, Get(heap[options.id], pc).b)
            /\ ran' = Append(ran, pc)
            /\ pre' = targets
            /\ given' = Get(heap[options.id], pc)
       ELSE UNCHANGED <<targets, ran, pre, given>>
    /\ heap' = [heap EXCEPT ![options.id] = Remove(@, pc)]
    /\ pc' = NextPc(pc)
    /\ UNCHANGED <<infile, caller_options, options, err, warnings, outfile>>

\* lines 406-408: one warning per key left in the copied options
WarnUnknown ==
    /\ pc = "warn"
    /\ warnings' = Keys(heap[options.id])
    /\ pc' = "save"
    /\ UNCHANGED <<infile, targets, caller_options, options, heap, err, outfile, ran, pre,
                   given>>

\* lines 409-411: project['targets'] = targets; save_project(...); return
Save ==
    /\ pc = "save"
    /\ outfile' = <<targets>>
    /\ pc' = "done"
    /\ UNCHANGED <<infile, targets, caller_options, options, heap, err, warnings, ran, pre,
                   given>>

Next ==
    \/ Begin
    \/ DoRenameVariables
    \/ DoRenameLists
    \/ DoRenameSprites
    \/ DoRenameCostumes
    \/ DoRenameSounds
    \/ DoRenameBackdrops
    \/ DoRenameMyBlocks
    \/ DoConvertIntegers
    \/ WarnUnknown
    \/ Save

-----------------------------------------------------------------------------
(* Input documents and option records                                      *)

Target(name, variables, lists, costumes, sounds, blocks) ==
    [name |-> name, variables |-> variables, lists |-> lists,
     costumes |-> costumes, sounds |-> sounds, blocks |-> blocks]

Block(key, opcode, fields, inputs, mutation) ==
    [key |-> key, opcode |-> opcode, fields |-> fields, inputs |-> inputs,
     mutation |-> mutation]

Variable(key, name) == [key |-> key, val |-> <<name, 0>>]
Asset(name, assetId) == [name |-> name, assetId |-> assetId]

StageName == <<83, 116, 97, 103, 101>>              \* "Stage"
Sprite1Name == <<83, 49>>                           \* "S1"
Sprite2Name == token_hex(1, 0)                      \* a name an earlier run produced
MouseName == <<95, 109, 111, 117, 115, 101, 95>>    \* "_mouse_"
NameA == <<97>>                                     \* "a"
NameB == <<98>>                                     \* "b"
NameC == <<99>>                                     \* "c"

ProcCodes ==
    << <<102, 32, 37, 115>>,                        \* "f %s"
       <<103, 32, 37, 98, 32, 37, 110>>,            \* "g %b %n"
       <<104>> >>                                   \* "h"

Prototype(key, code) ==
    Block(key, "procedures_prototype", <<>>, <<>>, << <<"proccode", code>> >>)
Call(key, code) ==
    Block(key, "procedures_call", <<>>, <<>>, << <<"proccode", code>> >>)
FieldBlock(key, opcode, field_name, value) ==
    Block(key, opcode, << <<field_name, <<value, "null">> >> >>, <<>>, <<>>)
InputBlock(key, inputs) == Block(key, "motion_movesteps", <<>>, inputs, <<>>)

Prim(kind, text) == [t |-> "prim", kind |-> kind, text |-> text]
BlockRef(id) == [t |-> "block", id |-> id]
NoInput == [t |-> "none"]

\* An option that may be left out of a record.
Absent == [t |-> "absent"]
Item(k, v) == IF v.t = "absent" THEN <<>> ELSE << <<k, v>> >>

\* Procedure documents: two sprites, each with a definition and a call.
ProcDocs ==
    {<<Target(StageName, <<>>, <<>>, <<>>, <<>>, <<>>),
       Target(Sprite1Name, <<>>, <<>>, <<>>, <<>>,
              <<Prototype("p1", ProcCodes[a]), Call("c1", ProcCodes[b])>>),
       Target(Sprite2Name, <<>>, <<>>, <<>>, <<>>,
              <<Call("c2", ProcCodes[c]), Prototype("p2", ProcCodes[d])>>)>> :
        a \in 1..3, b \in 1..3, c \in 1..3, d \in 1..3}

\* Sprite-menu documents: a block in the stage and one in the first sprite.
FieldBlocks ==
    << <<"motion_goto_menu", "TO">>,
       <<"motion_glideto_menu", "TO">>,
       <<"motion_pointtowards_menu", "TOWARDS">>,
       <<"control_create_clone_of_menu", "CLONE_OPTION">>,
       <<"sensing_touchingobjectmenu", "TOUCHINGOBJECTMENU">>,
       <<"sensing_of_object_menu", "OBJECT">>,
       <<"looks_costume", "COSTUME">> >>
FieldValues == <<Sprite1Name, Sprite2Name, MouseName>>

SpriteDocs ==
    {<<Target(StageName, <<>>, <<>>, <<>>, <<>>,
              <<FieldBlock("b1", FieldBlocks[o][1], FieldBlocks[o][2], FieldValues[v])>>),
       Target(Sprite1Name, <<>>, <<>>, <<>>, <<>>,
              <<FieldBlock("b2", "motion_goto_menu", "TO", FieldValues[w])>>),
       Target(Sprite2Name, <<>>, <<>>, <<>>, <<>>, <<>>)>> :
        o \in 1..Len(FieldBlocks), v \in 1..3, w \in 1..2}

\* One entity of every category in the stage and in a sprite.
RichDoc ==
    <<Target(StageName, <<Variable("v1", NameA)>>, <<Variable("l1", NameB)>>,
             <<Asset(NameA, "bd1")>>, <<Asset(NameB, "sn1")>>, <<>>),
      Target(Sprite1Name, <<Variable("v2", NameB)>>, <<Variable("l2", NameC)>>,
             <<Asset(NameC, "co1")>>, <<Asset(NameA, "sn2")>>,
             <<Prototype("p1", ProcCodes[1]), Call("c1", ProcCodes[1]),
               FieldBlock("b1", "motion_goto_menu", "TO", Sprite1Name),
               InputBlock("b2", << <<"STEPS", <<1, Prim(4, <<50, 53, 53>>)>> >> >>)>>)>>

\* Two entries per collection, to see order and scope.
ScopeDoc ==
    <<Target(StageName, <<>>, <<>>,
             <<Asset(NameA, "bd1"), Asset(NameB, "bd2")>>, <<Asset(NameC, "sn1")>>, <<>>),
      Target(Sprite1Name, <<>>, <<>>,
             <<Asset(NameA, "co1"), Asset(NameC, "co2")>>, <<Asset(NameB, "sn2")>>, <<>>)>>

\* Literal documents: one block with two inputs.
RECURSIVE TextsOfLen(_)
TextsOfLen(n) ==
    IF n = 0 THEN {<<>>}
    ELSE {<<c>> \o s : c \in {48, 49, 57, 120, 45, 10}, s \in TextsOfLen(n - 1)}

Texts ==
    UNION {TextsOfLen(n) : n \in 0..MaxTextLen}
    \cup {<<50, 53, 53>>, <<48, 120, 102, 102>>, <<48, 48, 49, 54>>}   \* "255" "0xff" "0016"

LiteralInputs ==
    {<<1, Prim(kind, text)>> : kind \in {NumberPrimitive, 5, 10}, text \in Texts}
    \cup {<<2, BlockRef("b9")>>, <<1, NoInput>>,
          <<3, BlockRef("b9"), Prim(NumberPrimitive, <<49, 48>>)>>}

LiteralDocs ==
    {<<Target(StageName, <<>>, <<>>, <<>>, <<>>, <<>>),
       Target(Sprite1Name, <<>>, <<>>, <<>>, <<>>,
              <<InputBlock("b1", << <<"STEPS", v>>, <<"X", <<1, Prim(NumberPrimitive, <<49, 54>>)>> >> >>),
                InputBlock("b2", <<>>)>>)>> :
        v \in LiteralInputs}

\* The categories parse_rename_options is called for.
Categories == <<"variables", "lists", "sprites", "costumes", "sounds", "backdrops", "my_blocks">>

\* An input: the document, the caller's options value and the dict objects
\* it refers to (heap[1] is the options dict itself).
Input(doc, opts, objects) == [targets |-> doc, options |-> opts, heap |-> objects]

OneCategory(doc, name_name, sub) ==
    Input(doc, DictRef(1), << << <<"rename_" \o name_name, DictRef(2)>> >>, sub >>)

HexOptions(name_name, n) ==
    << <<StrategyKey(name_name), PyStr("random_hex")>>, <<LengthKey(name_name), PyInt(n)>> >>

ProcInputs == {OneCategory(doc, "my_blocks", HexOptions("my_blocks", 1)) : doc \in ProcDocs}

SpriteInputs == {OneCategory(doc, "sprites", HexOptions("sprites", 1)) : doc \in SpriteDocs}

\* Option resolution: every category, every strategy, length and range value.
Strategies == {Absent, PyNone, PyStr("random_hex"), PyStr("zzz")}
Lengths == {Absent, PyStr("8")} \cup {PyInt(n) : n \in 0..MaxNameLen}
RangeBounds == {Absent, PyNone, PyInt(65), PyInt(66), PyStr("65"), PyStr("66")}

ParseInputs ==
    {OneCategory(RichDoc, Categories[c],
                 Item(StrategyKey(Categories[c]), st) \o Item(LengthKey(Categories[c]), ln)) :
        c \in 1..Len(Categories), st \in Strategies, ln \in Lengths}
    \cup
    {OneCategory(RichDoc, Categories[c],
                 Item(StrategyKey(Categories[c]), PyStr("random_unicode_char_range"))
                 \o Item(LengthKey(Categories[c]), ln)
                 \o Item("range_start", a) \o Item("range_end", b)) :
        c \in 1..Len(Categories), ln \in {PyInt(1), PyStr("8")}, a \in RangeBounds, b \in RangeBounds}

\* Variables and lists: the documented (plural) length key, the key the code
\* reads, and the public / private flags.
Flags == {Absent, PyBool(TRUE), PyBool(FALSE)}

KeyedInputs ==
    {OneCategory(RichDoc, name_name,
                 Item(StrategyKey(name_name), PyStr("random_hex"))
                 \o Item(name_name \o "_name_length", plural)
                 \o Item(LengthKey(name_name), singular)
                 \o Item("rename_public_" \o name_name, pub)
                 \o Item("rename_private_" \o name_name, priv)) :
        name_name \in {"variables", "lists"}, plural \in {Absent, PyInt(4)},
        singular \in {Absent, PyInt(1)}, pub \in Flags, priv \in Flags}

\* Costumes, sounds and backdrops, alone and together.
ScopeInputs ==
    {Input(ScopeDoc, DictRef(1),
           << Item("rename_backdrops", b) \o Item("rename_sounds", s) \o Item("rename_costumes", c),
              HexOptions("costumes", 1), HexOptions("sounds", 1), HexOptions("backdrops", 1) >>) :
        c \in {Absent, DictRef(2)}, s \in {Absent, DictRef(3)}, b \in {Absent, DictRef(4)}}

\* Literal recoding, on and off.
LiteralInputsOf ==
    {Input(doc, DictRef(1), << << <<"convert_integers_to_hexadecimal", PyBool(on)>> >> >>) :
        doc \in LiteralDocs, on \in BOOLEAN}

\* Top-level records: recognised keys with right and wrong value types, an
\* unknown key, and an options value that is no dict.
TopInputs ==
    {Input(RichDoc, DictRef(1),
           << Item("foo", foo) \o Item("rename_sprites", sp)
              \o Item("convert_integers_to_hexadecimal", cv) \o Item("rename_variables", va),
              HexOptions("sprites", 1) >>) :
        foo \in {Absent, PyInt(1)}, sp \in {Absent, DictRef(2), PyInt(5)},
        cv \in {Absent, PyBool(TRUE), PyInt(1)}, va \in {Absent, PyStr("random_hex")}}
    \cup {Input(RichDoc, PyNone, <<>>), Input(RichDoc, PyStr("random_hex"), <<>>)}

\* Two requested passes: rename_variables succeeds, rename_lists succeeds,
\* is refused by parse_rename_options, or fails at its first generator call.
AbortInputs ==
    {Input(RichDoc, DictRef(1),
           << << <<"rename_lists", DictRef(3)>>, <<"rename_variables", DictRef(2)>> >>,
              HexOptions("variables", 1), sub >>) :
        sub \in {HexOptions("lists", 1),
                 << <<StrategyKey("lists"), PyStr("random_hex")>>,
                    <<LengthKey("lists"), PyStr("8")>> >>,
                 << <<StrategyKey("lists"), PyStr("zzz")>> >>}}

Inputs ==
    ProcInputs \cup SpriteInputs \cup ParseInputs \cup KeyedInputs \cup ScopeInputs
    \cup LiteralInputsOf \cup TopInputs \cup AbortInputs

Init ==
    \E input \in Inputs :
        /\ infile = input.targets
        /\ targets = input.targets
        /\ caller_options = input.options
        /\ options = input.options
        /\ heap = input.heap
    /\ pc = "start"
    /\ err = "none"
    /\ warnings = <<>>
    /\ outfile = <<>>
    /\ ran = <<>>
    /\ pre = <<>>
    /\ given = <<>>

Spec == Init /\ [][Next]_vars

-----------------------------------------------------------------------------
(* Properties                                                              *)

Last(s) == s[Len(s)]

\* The last pass obfuscate called was option_name (it returned or raised);
\* `pre` and `given` are then its arguments and `targets` what it left.
LastPass(option_name) == ran # <<>> /\ Last(ran) = option_name

Returned(option_name) == LastPass(option_name) /\ err = "none"

Positions(ts) == {Visit(ts, 1, 1)[i] : i \in 1..Len(Visit(ts, 1, 1))}
BlockAt(ts, p) == ts[p[1]].blocks[p[2]]
PrototypesOf(ts) == {p \in Positions(ts) : BlockAt(ts, p).opcode = "procedures_prototype"}
CallsOf(ts) == {p \in Positions(ts) : BlockAt(ts, p).opcode = "procedures_call"}

CallDefined(ts, c) ==
    \E p \in PrototypesOf(ts) : proccode(BlockAt(ts, p)) = proccode(BlockAt(ts, c))

\* The names a resolved generator can return.
GeneratedNames(gen) == {Generate(gen, tape) : tape \in Tapes}

\* C1 (as claimed): when every call-site's proccode is the proccode of some
\* prototype, then after rename_my_blocks every call-site has the new proccode
\* of every prototype that had its old proccode, and its %n/%s/%b tokens are
\* the same in count and order as before.
C1_CallsMatchEveryDefinition ==
    (Returned("rename_my_blocks") /\ \A c \in CallsOf(pre) : CallDefined(pre, c)) =>
        \A c \in CallsOf(pre) :
            /\ findall(proccode(BlockAt(targets, c))) = findall(proccode(BlockAt(pre, c)))
            /\ \A p \in PrototypesOf(pre) :
                  proccode(BlockAt(pre, p)) = proccode(BlockAt(pre, c))
                  => proccode(BlockAt(targets, c)) = proccode(BlockAt(targets, p))

\* The six opcode / field pairs through which a block names a sprite.
SpriteMenuFields ==
    { <<"motion_goto_menu", "TO">>, <<"motion_glideto_menu", "TO">>,
      <<"motion_pointtowards_menu", "TOWARDS">>,
      <<"control_create_clone_of_menu", "CLONE_OPTION">>,
      <<"sensing_touchingobjectmenu", "TOUCHINGOBJECTMENU">>,
      <<"sensing_of_object_menu", "OBJECT">> }

SpriteNamesDistinct(ts) ==
    \A t, u \in 2..Len(ts) : ts[t].name = ts[u].name => t = u

\* C2: rename_sprites keeps the number and order of the Targets, gives every
\* Target at index >= 1 a generated name, and in every Target (stage
\* included) a field of one of the six sprite menus that held the old name of
\* a sprite holds that sprite's new name; every other field value, and
\* everything else in the document, is unchanged.
C2_SpritesRenamedAndReferencesFollow ==
    (Returned("rename_sprites") /\ SpriteNamesDistinct(pre)) =>
        LET gen == parse_rename_options(given, "sprites").gen
            IsSprite(x) == \E u \in 2..Len(pre) : pre[u].name = x
            NewNameOf(x) == targets[CHOOSE u \in 2..Len(pre) : pre[u].name = x].name
        IN  /\ Len(targets) = Len(pre)
            /\ targets[1].name = pre[1].name
            /\ \A t \in 2..Len(pre) : targets[t].name \in GeneratedNames(gen)
            /\ \A t \in 1..Len(pre) :
                  /\ [targets[t] EXCEPT !.name = <<>>, !.blocks = <<>>]
                        = [pre[t] EXCEPT !.name = <<>>, !.blocks = <<>>]
                  /\ Len(targets[t].blocks) = Len(pre[t].blocks)
                  /\ \A b \in 1..Len(pre[t].blocks) :
                        LET old == pre[t].blocks[b]
                            new == targets[t].blocks[b]
                        IN  /\ [new EXCEPT !.fields = <<>>] = [old EXCEPT !.fields = <<>>]
                            /\ Keys(new.fields) = Keys(old.fields)
                            /\ \A i \in 1..Len(old.fields) :
                                  LET was == old.fields[i][2]
                                  IN  new.fields[i][2] =
                                        IF <<old.opcode, old.fields[i][1]>> \in SpriteMenuFields
                                           /\ IsSprite(was[1])
                                        THEN [was EXCEPT ![1] = NewNameOf(was[1])]
                                        ELSE was

\* C2 witness: the pass has run on a document whose stage block names the
\* first sprite through sensing_of_object_menu and whose sprite block names
\* the second sprite; both fields now hold new names, the first a changed one.
C2_Witness ==
    /\ Returned("rename_sprites")
    /\ Len(pre) = 3
    /\ Len(pre[1].blocks) = 1
    /\ pre[1].blocks[1].opcode = "sensing_of_object_menu"
    /\ Get(pre[1].blocks[1].fields, "OBJECT")[1] = pre[2].name
    /\ Get(targets[1].blocks[1].fields, "OBJECT")[1] = targets[2].name
    /\ targets[2].name # pre[2].name
    /\ Get(pre[2].blocks[1].fields, "TO")[1] = pre[3].name
    /\ Get(targets[2].blocks[1].fields, "TO")[1] = targets[3].name
    /\ targets[2].name = pre[3].name

\* C3: when some procedures_call block's proccode is the proccode of no
\* prototype, rename_my_blocks raises (KeyError once its options resolved to
\* a generator), obfuscate ends with that error, and nothing is written.
C3_DanglingCallRaises ==
    (LastPass("rename_my_blocks") /\ \E c \in CallsOf(pre) : ~CallDefined(pre, c)) =>
        /\ err # "none"
        /\ pc = "raised"
        /\ outfile = <<>>
        /\ LET r == parse_rename_options(given, "my_blocks")
           IN  (r.err = "none" /\ Callable(r.gen)) => err = "KeyError"

\* C3 witness: rename_my_blocks has left obfuscate with a KeyError on a
\* document with a call-site that has no definition.
C3_Witness ==
    /\ LastPass("rename_my_blocks")
    /\ \E c \in CallsOf(pre) : ~CallDefined(pre, c)
    /\ err = "KeyError"
    /\ pc = "raised"

\* Number of times x occurs in seq.
Count(seq, x) == Cardinality({i \in 1..Len(seq) : seq[i] = x})

\* A top-level key obfuscate has no pass for, or one bound to a value that
\* is not of the type its pass takes.
Offending(k, v) == ~HasKey(option_names, k) \/ ~IsInstance(v, Get(option_names, k))

\* C4 (as claimed): once the loop over the categories is over, every
\* top-level key that is unknown, or known but bound to a value of the wrong
\* type, has exactly one UnknownOption warning; such a key raises nothing, the
\* passes of the well-typed entries have been called, and the run saves.
C4_EveryOffendingKeyWarnedOnce ==
    IsInstanceDict(caller_options) =>
        LET top == heap[caller_options.id]
        IN  /\ pc \in {"save", "done"} =>
                  \A i \in 1..Len(top) :
                      IF Offending(top[i][1], top[i][2])
                      THEN Count(warnings, top[i][1]) = 1
                      ELSE Count(ran, top[i][1]) = 1
            /\ err # "none" => ran # <<>>
            /\ pc = "done" => outfile = <<targets>>

IsHexChar(c) == c \in (48..57) \cup (97..102)
IsHexName(s, n) == Len(s) = n /\ \A i \in 1..Len(s) : IsHexChar(s[i])

\* The options record of the variable-rename scenario.
C5Options ==
    << <<"rename_variables_to", PyStr("random_hex")>>,
       <<"variables_name_length", PyInt(4)>> >>

\* C5 (as claimed): rename_variables with {rename_variables_to: random_hex,
\* variables_name_length: 4} on a document with one stage variable and one
\* sprite variable makes both display names 4 hexadecimal characters and
\* changes nothing else.
C5_VariableScenarioGivesFourHexChars ==
    (/\ Returned("rename_variables")
     /\ given = C5Options
     /\ Len(pre) = 2
     /\ Len(pre[1].variables) = 1
     /\ Len(pre[2].variables) = 1) =>
        /\ Len(targets) = 2
        /\ \A t \in 1..2 :
              /\ [targets[t] EXCEPT !.variables = <<>>] = [pre[t] EXCEPT !.variables = <<>>]
              /\ Len(targets[t].variables) = 1
              /\ targets[t].variables[1].key = pre[t].variables[1].key
              /\ Tail(targets[t].variables[1].val) = Tail(pre[t].variables[1].val)
              /\ IsHexName(targets[t].variables[1].val[1], 4)

\* The generated part of a proccode rename_my_blocks wrote: what precedes
\* the first space.
NamePart(code) ==
    SubSeq(code, 1, (CHOOSE i \in 1..Len(code) :
                        code[i] = 32 /\ \A j \in 1..(i - 1) : code[j] # 32) - 1)

NamesIn(ts, coll, scope) ==
    UNION {{ts[t][coll][j].name : j \in 1..Len(ts[t][coll])} : t \in scope}

FirstsIn(ts, coll, scope) ==
    UNION {{ts[t][coll][j].val[1] : j \in 1..Len(ts[t][coll])} : t \in scope}

\* The targets whose variables (lists) a record enables: the stage unless
\* rename_public_* is false, the sprites unless rename_private_* is false.
EnabledTargets(name_name, opts, ts) ==
    {t \in 1..Len(ts) :
        IF t = 1 THEN Truthy(pop(opts, "rename_public_" \o name_name, PyBool(TRUE)).val)
        ELSE Truthy(pop(opts, "rename_private_" \o name_name, PyBool(TRUE)).val)}

\* The display names the pass of category name_name has written in ts.
WrittenNames(name_name, opts, ts) ==
    CASE name_name \in {"variables", "lists"} ->
            FirstsIn(ts, name_name, EnabledTargets(name_name, opts, ts))
      [] name_name = "sprites" -> {ts[t].name : t \in 2..Len(ts)}
      [] name_name = "costumes" -> NamesIn(ts, "costumes", 2..Len(ts))
      [] name_name = "sounds" -> NamesIn(ts, "sounds", 1..Len(ts))
      [] name_name = "backdrops" -> NamesIn(ts, "costumes", {1})
      [] name_name = "my_blocks" ->
            {NamePart(proccode(BlockAt(ts, p))) : p \in PrototypesOf(ts)}

\* C6 (as claimed): for every category, when the options resolve to
\* random_hex with length L >= 0, every name the generator returned is L
\* hexadecimal characters long.
C6_HexNamesHaveLengthL ==
    \A c \in 1..Len(Categories) :
        LET name_name == Categories[c]
            r == parse_rename_options(given, name_name)
        IN  (/\ Returned("rename_" \o name_name)
             /\ r.gen.kind = "random_hex"
             /\ r.gen.len >= 0) =>
                \A n \in WrittenNames(name_name, given, targets) : IsHexName(n, r.gen.len)

\* C7 (as claimed): for every category, a record without rename_<category>_to
\* and a record that binds it to null both end in OptionError, and whatever
\* parse_rename_options returns without raising is a callable generator.
C7_MissingOrNullStrategyIsOptionError ==
    \A c \in 1..Len(Categories) :
        LET name_name == Categories[c]
            r == parse_rename_options(given, name_name)
        IN  LastPass("rename_" \o name_name) =>
                /\ (\/ ~HasKey(given, StrategyKey(name_name))
                    \/ Get(given, StrategyKey(name_name)) = PyNone)
                   => (r.err = "OptionError" /\ err = "OptionError")
                /\ r.err = "none" => Callable(r.gen)

\* C8 (as claimed): with random_unicode_char_range, a range_start or
\* range_end that is absent, null or no integer, or range_start > range_end,
\* ends the pass in OptionError with the document as it was; equal bounds are
\* accepted.
C8_BadRangeIsOptionError ==
    \A c \in 1..Len(Categories) :
        LET name_name == Categories[c]
            range_start == pop(given, "range_start", PyNone).val
            range_end == pop(given, "range_end", PyNone).val
            var_name_len == pop(given, LengthKey(name_name), PyInt(DefaultNameLength)).val
        IN  (/\ LastPass("rename_" \o name_name)
             /\ HasKey(given, StrategyKey(name_name))
             /\ Get(given, StrategyKey(name_name)) = PyStr("random_unicode_char_range")) =>
                /\ (\/ range_start.t # "int"
                    \/ range_end.t # "int"
                    \/ range_start.i > range_end.i)
                   => (err = "OptionError" /\ targets = pre)
                /\ (/\ range_start.t = "int"
                    /\ range_end.t = "int"
                    /\ range_start.i = range_end.i
                    /\ var_name_len.t = "int")
                   => err = "none"

\* A text made of decimal digits and nothing else.
OnlyDecimalDigits(text) == Len(text) > 0 /\ \A i \in 1..Len(text) : text[i] \in 48..57

\* C9 (as claimed): with convert = true the pass replaces the text of every
\* input whose value is a number literal made only of decimal digits by the
\* 0x-prefixed base-16 text of the same integer, leaves every other input and
\* everything else alone, and a second application changes nothing; with
\* convert = false the document is unchanged.
C9_OnlyDecimalLiteralsRecoded ==
    LastPass("convert_integers_to_hexadecimal") =>
        IF given = PyBool(TRUE)
        THEN /\ Len(targets) = Len(pre)
             /\ \A t \in 1..Len(pre) :
                   /\ [targets[t] EXCEPT !.blocks = <<>>] = [pre[t] EXCEPT !.blocks = <<>>]
                   /\ Len(targets[t].blocks) = Len(pre[t].blocks)
                   /\ \A b \in 1..Len(pre[t].blocks) :
                         LET old == pre[t].blocks[b]
                             new == targets[t].blocks[b]
                         IN  /\ [new EXCEPT !.inputs = <<>>] = [old EXCEPT !.inputs = <<>>]
                             /\ Keys(new.inputs) = Keys(old.inputs)
                             /\ \A k \in 1..Len(old.inputs) :
                                   LET v == old.inputs[k][2]
                                   IN  new.inputs[k][2] =
                                         IF /\ v[2].t = "prim"
                                            /\ v[2].kind = NumberPrimitive
                                            /\ OnlyDecimalDigits(v[2].text)
                                         THEN [v EXCEPT ![2].text = hex(int_digits(v[2].text))]
                                         ELSE v
             /\ convert_integers_to_hexadecimal(targets, TRUE) = targets
        ELSE targets = pre

\* The entries of a collection after a pass: as many, in the same order, the
\* same but for the name, which is a generated one where the pass renames.
SameButNames(new, old, gen, renames) ==
    /\ Len(new) = Len(old)
    /\ \A j \in 1..Len(old) :
          /\ [new[j] EXCEPT !.name = <<>>] = [old[j] EXCEPT !.name = <<>>]
          /\ IF renames THEN new[j].name \in GeneratedNames(gen)
             ELSE new[j].name = old[j].name

\* The pass of category name_name has renamed the entries of collection coll
\* of the targets in scope and nothing else.
RenamesExactly(name_name, coll, scope) ==
    Returned("rename_" \o name_name) =>
        LET gen == parse_rename_options(given, name_name).gen
        IN  /\ Len(targets) = Len(pre)
            /\ \A t \in 1..Len(pre) :
                  /\ [targets[t] EXCEPT ![coll] = <<>>] = [pre[t] EXCEPT ![coll] = <<>>]
                  /\ SameButNames(targets[t][coll], pre[t][coll], gen, t \in scope)

RequestedByCaller(k) ==
    /\ IsInstanceDict(caller_options)
    /\ HasKey(heap[caller_options.id], option_names[k][1])
    /\ IsInstance(Get(heap[caller_options.id], option_names[k][1]), option_names[k][2])

\* C11: save_project is called at most once, and only after every requested
\* pass has returned normally, with the document the passes left; once
\* option validation or a pass has raised, the output file is never
\* written, whatever earlier passes did to the document in memory.
C11_NoPersistenceOnError ==
    /\ Len(outfile) <= 1
    /\ err # "none" => outfile = <<>> /\ pc = "raised"
    /\ outfile # <<>> =>
          /\ err = "none"
          /\ pc = "done"
          /\ outfile[1] = targets
          /\ \A k \in 1..Len(option_names) :
                RequestedByCaller(k) => Count(ran, option_names[k][1]) = 1

\* A second pass raised after the first one had renamed the variables of
\* the document in memory; nothing was written.
C11_Witness ==
    /\ pc = "raised"
    /\ err = "OptionError"
    /\ ran = <<"rename_variables", "rename_lists">>
    /\ targets # infile
    /\ outfile = <<>>

\* The value of a boolean flag of the record a pass was given: true when
\* the key is absent.
FlagOf(opts, key) == ~HasKey(opts, key) \/ Get(opts, key) = PyBool(TRUE)

FlagsAreBooleans(opts, name_name) ==
    \A key \in {"rename_public_" \o name_name, "rename_private_" \o name_name} :
        HasKey(opts, key) => IsInstanceBool(Get(opts, key))

CallerSubRecord == heap[Get(heap[caller_options.id], Last(ran)).id]

\* C13 (as claimed): obfuscate works on a copy, so when a run has ended the
\* caller's sub-record of the category that ran last is equal to the record
\* the pass was given, and parse_rename_options on it (a second run with the
\* same options value) resolves the same strategy and raises no OptionError
\* that the first run did not raise.
C13_CallerOptionsNotConsumed ==
    \A c \in 1..Len(Categories) :
        (pc \in {"done", "raised"} /\ LastPass("rename_" \o Categories[c])) =>
            LET first == parse_rename_options(given, Categories[c])
                second == parse_rename_options(CallerSubRecord, Categories[c])
            IN  /\ CallerSubRecord = given
                /\ second.gen = first.gen
                /\ second.err = "OptionError" => first.err = "OptionError"

=============================================================================
